---------------------------- MODULE Spec2Model ----------------------------
(***************************************************************************)
(* Black-Scholes pricing and the three implied-volatility solvers of       *)
(* pyscripts/newton_iv.py.                                                 *)
(*                                                                         *)
(* Numbers.  The program computes in Python floats.  Here a real x is the  *)
(* integer x * SCALE (fixed point, four decimals), products and quotients  *)
(* are truncated towards zero, and math.log, math.exp, math.sqrt,          *)
(* norm.cdf and norm.pdf are computed to that resolution.  tau is kept in  *)
(* seconds, as in the program.  The outcomes Python and numpy give a       *)
(* division by zero (ZeroDivisionError for plain numbers, +-inf or nan     *)
(* for numpy scalars) are modelled as such.                                *)
(*                                                                         *)
(* Each solver is a loop; one action is one iteration of it, another the   *)
(* return after the loop.  A call of a Pricing Engine function is one      *)
(* action.  Init is the entry of a call, with its arguments.               *)
(***************************************************************************)
EXTENDS Integers, Sequences, FiniteSets, TLC

\* One unit of the fixed-point representation is 1 / SCALE.
SCALE == 10 ^ 4

Abs(x) == IF x < 0 THEN -x ELSE x

Sgn(x) == IF x < 0 THEN -1 ELSE IF x > 0 THEN 1 ELSE 0

\* Largest magnitude a quotient keeps (1000.0).  norm.cdf and norm.pdf are
\* constant far below it, and every sigma * sqrt(tauInYears) of the model is
\* below 400, so d1 and d2 saturate together.
DMax == 1000 * SCALE

\* x * y of two fixed-point numbers x, y >= 0, truncated.
MulAbs(x, y) ==
  (x \div SCALE) * (y \div SCALE) * SCALE + (x \div SCALE) * (y % SCALE)
  + (x % SCALE) * (y \div SCALE) + ((x % SCALE) * (y % SCALE)) \div SCALE

\* a * b of two fixed-point numbers (float multiplication).
MulFix(a, b) == Sgn(a) * Sgn(b) * MulAbs(Abs(a), Abs(b))

RECURSIVE Frac(_, _, _)
\* The first n decimals of r / y, 0 <= r < y, as an integer.
Frac(r, y, n) ==
  IF n = 0 THEN 0
  ELSE ((r * 10) \div y) * 10 ^ (n - 1) + Frac((r * 10) % y, y, n - 1)

\* x / y of two numbers x >= 0, y > 0 of the same scale, by long division,
\* truncated; the quotient saturates at DMax.
DivAbs(x, y) ==
  IF x \div y >= DMax \div SCALE THEN DMax
  ELSE (x \div y) * SCALE + Frac(x % y, y, 4)

\* a / b of two numbers of the same scale, b # 0 (float division).
DivFix(a, b) == Sgn(a) * Sgn(b) * DivAbs(Abs(a), Abs(b))

RECURSIVE SqrtSearch(_, _, _)
\* Largest r in lo..hi with r * r <= v.
SqrtSearch(v, lo, hi) ==
  IF lo >= hi THEN lo
  ELSE IF ((lo + hi + 1) \div 2) * ((lo + hi + 1) \div 2) <= v
  THEN SqrtSearch(v, (lo + hi + 1) \div 2, hi)
  ELSE SqrtSearch(v, lo, (lo + hi + 1) \div 2 - 1)

\* math.sqrt(x) for 0 <= x <= 2.
Sqrt(x) == SqrtSearch(x * SCALE, 0, 2 * SCALE)

\* ln 2.
Ln2 == 6931

RECURSIVE AtanhSum(_, _, _)
\* t / n + t y2 / (n + 2) + ... up to the term in y^7, for t = y^n, y2 = y^2.
AtanhSum(t, y2, n) ==
  IF n > 7 THEN 0 ELSE t \div n + AtanhSum(MulFix(t, y2), y2, n + 2)

\* atanh(y) for |y| <= 0.2, by its series.
Atanh(y) == Sgn(y) * AtanhSum(Abs(y), MulFix(y, y), 1)

RECURSIVE Ln(_)
\* math.log(x), x > 0: halve or double x into [0.75, 1.5), then
\* ln x = 2 atanh((x - 1) / (x + 1)).
Ln(x) ==
  IF x >= (3 * SCALE) \div 2 THEN Ln2 + Ln(x \div 2)
  ELSE IF 4 * x < 3 * SCALE THEN Ln(2 * x) - Ln2
  ELSE 2 * Atanh(DivFix(x - SCALE, x + SCALE))

RECURSIVE ExpSum(_, _, _)
\* t + t x / n + t x^2 / (n (n + 1)) + ... up to n = 6.
ExpSum(t, x, n) ==
  IF n > 6 \/ t = 0 THEN 0 ELSE t + ExpSum(Sgn(t) * Sgn(x) * (MulAbs(Abs(t), Abs(x)) \div n), x, n + 1)

\* math.exp(x) for |x| <= 1, by its series.
Exp(x) == ExpSum(SCALE, x, 1)

\* Spacing of the tables of the standard normal distribution (0.05).
TableStep == 500

\* norm.cdf at 0, 0.05, ..., 4.25.
CdfTable ==
  << 5000, 5199, 5398, 5596, 5793, 5987, 6179, 6368, 6554, 6736, 6915, 7088, 7257,
     7422, 7580, 7734, 7881, 8023, 8159, 8289, 8413, 8531, 8643, 8749, 8849, 8944,
     9032, 9115, 9192, 9265, 9332, 9394, 9452, 9505, 9554, 9599, 9641, 9678, 9713,
     9744, 9772, 9798, 9821, 9842, 9861, 9878, 9893, 9906, 9918, 9929, 9938, 9946,
     9953, 9960, 9965, 9970, 9974, 9978, 9981, 9984, 9987, 9989, 9990, 9992, 9993,
     9994, 9995, 9996, 9997, 9997, 9998, 9998, 9998, 9999, 9999, 9999, 9999, 9999,
     10000, 10000, 10000, 10000, 10000, 10000, 10000, 10000 >>

\* norm.pdf at 0, 0.05, ..., 4.25.
PdfTable ==
  << 3989, 3984, 3970, 3945, 3910, 3867, 3814, 3752, 3683, 3605, 3521, 3429, 3332,
     3230, 3123, 3011, 2897, 2780, 2661, 2541, 2420, 2299, 2179, 2059, 1942, 1826,
     1714, 1604, 1497, 1394, 1295, 1200, 1109, 1023, 940, 863, 790, 721, 656,
     596, 540, 488, 440, 396, 355, 317, 283, 252, 224, 198, 175, 154,
     136, 119, 104, 91, 79, 69, 60, 51, 44, 38, 33, 28, 24,
     20, 17, 15, 12, 10, 9, 7, 6, 5, 4, 4, 3, 2,
     2, 2, 1, 1, 1, 1, 1, 0 >>

\* Linear interpolation in a table at x >= 0; the last entry beyond its end.
Interp(table, x) ==
  IF x \div TableStep + 1 >= Len(table) THEN table[Len(table)]
  ELSE table[x \div TableStep + 1]
       + ((table[x \div TableStep + 2] - table[x \div TableStep + 1]) * (x % TableStep))
         \div TableStep

\* norm.cdf(x).
Cdf(x) == IF x >= 0 THEN Interp(CdfTable, x) ELSE SCALE - Interp(CdfTable, -x)

\* norm.pdf(x).
Pdf(x) == Interp(PdfTable, Abs(x))

SecondsPerYear == 31556952

tauToYears(tau) == DivFix(tau, SecondsPerYear)

\* What a Pricing Engine call gives: a number, nan, or an exception.
Fin(x) == [k |-> "fin", v |-> x]

NaN == [k |-> "nan", v |-> 0]

Raised(e) == [k |-> "raise", v |-> 0, err |-> e]

\* ln(S / K) + (r + sigma^2 / 2) tauInYears, the numerator of d1.
D1Numerator(spot, strike, rate, sigma, tauInYears) ==
  Ln(DivFix(spot, strike)) + MulFix(rate + MulFix(sigma, sigma) \div 2, tauInYears)

\* d1 and d2 from the numerator of d1 and sq = sqrt(tauInYears).  k is "fin",
\* "inf" (both +-inf, kept at +-DMax), "nan" or "raise".  arr: sigma is a
\* numpy scalar (an element of an array), for which a division by zero gives
\* +-inf or nan where a plain number raises ZeroDivisionError.
Factors(num, sigma, sq, arr) ==
  IF sigma = 0 \/ sq = 0
  THEN IF ~arr THEN [k |-> "raise", d1 |-> 0, d2 |-> 0]
       ELSE IF num = 0 THEN [k |-> "nan", d1 |-> 0, d2 |-> 0]
       ELSE [k |-> "inf", d1 |-> Sgn(num) * DMax, d2 |-> Sgn(num) * DMax]
  ELSE [k |-> "fin", d1 |-> DivFix(DivFix(num, sigma), sq),
        d2 |-> DivFix(DivFix(num, sigma), sq) - MulFix(sigma, sq)]

get_prob_factors(spot, strike, rate, sigma, tau, arr) ==
  Factors(D1Numerator(spot, strike, rate, sigma, tauToYears(tau)), sigma,
          Sqrt(tauToYears(tau)), arr)

\* spot * norm.pdf(d1) * math.sqrt(tauInYears).
VegaOf(pf, spot, tauInYears) ==
  IF pf.k = "raise" THEN Raised("ZeroDivisionError")
  ELSE IF pf.k = "nan" THEN NaN
  ELSE Fin(MulFix(MulFix(spot, Pdf(pf.d1)), Sqrt(tauInYears)))

get_vega(spot, strike, rate, sigma, tau, arr) ==
  VegaOf(get_prob_factors(spot, strike, rate, sigma, tau, arr), spot, tauToYears(tau))

\* spot * norm.cdf(d1) - strike * math.exp(-rate * tauInYears) * norm.cdf(d2).
CallOf(pf, spot, strike, rate, tauInYears) ==
  IF pf.k = "raise" THEN Raised("ZeroDivisionError")
  ELSE IF pf.k = "nan" THEN NaN
  ELSE Fin(MulFix(spot, Cdf(pf.d1))
           - MulFix(MulFix(strike, Exp(-MulFix(rate, tauInYears))), Cdf(pf.d2)))

get_call_price(spot, strike, rate, sigma, tau, arr) ==
  CallOf(get_prob_factors(spot, strike, rate, sigma, tau, arr), spot, strike, rate,
         tauToYears(tau))

\* The put formula with norm.cdf(d2) and norm.cdf(d1), the signs dropped.
PutOfUnsigned(pf, spot, strike, rate, tauInYears) ==
  IF pf.k = "raise" THEN Raised("ZeroDivisionError")
  ELSE IF pf.k = "nan" THEN NaN
  ELSE Fin(MulFix(MulFix(strike, Exp(-MulFix(rate, tauInYears))), Cdf(pf.d2))
           - MulFix(spot, Cdf(pf.d1)))

\* strike * math.exp(-rate * tauInYears) * norm.cdf(-d2) - spot * norm.cdf(-d1).
PutOf(pf, spot, strike, rate, tauInYears) ==
  IF pf.k = "raise" THEN Raised("ZeroDivisionError")
  ELSE IF pf.k = "nan" THEN NaN
  ELSE Fin(MulFix(MulFix(strike, Exp(-MulFix(rate, tauInYears))), Cdf(-pf.d2))
           - MulFix(spot, Cdf(-pf.d1)))

get_put_price(spot, strike, rate, sigma, tau, arr) ==
  PutOf(get_prob_factors(spot, strike, rate, sigma, tau, arr), spot, strike, rate,
        tauToYears(tau))

\* The price the solvers compare with market (the is_call branches).
Price(spot, strike, rate, sigma, tau, is_call, arr) ==
  IF is_call THEN get_call_price(spot, strike, rate, sigma, tau, arr)
  ELSE get_put_price(spot, strike, rate, sigma, tau, arr)

NoValue == [k |-> "none", v |-> 0]

Max(a, b) == IF a >= b THEN a ELSE b

\* The floor of vega in the Newton update (0.01).
VegaFloor == 100

\* np.arange(0.0001, 4, 0.001).
GridStart == 1

GridStep == 10

GridStop == 40000

\* len(candidates).
GridLen == (GridStop - GridStart + GridStep - 1) \div GridStep

\* candidates[i], from 0.
Candidate(i) == GridStart + i * GridStep

\* The defaults of the solvers' signatures.
DefaultGuess == 1 * SCALE

DefaultLeft == 0

DefaultRight == 10 * SCALE

\* The largest iteration budget explored.
MaxIter == 5

\* The arguments the calls are explored with.  tau is 0 or at least a day, so
\* that tauToYears(tau) is 0 only for tau = 0, as in the program.
Spots == {200, 5000}

Strikes == {400, 5000, 5750}

Rates == {0, 500}

Taus == {0, 86400, SecondsPerYear}

Markets == {100, 900}

Tols == {2, 20}

Guesses == {DefaultGuess, 5000}

Brackets == { <<DefaultLeft, DefaultRight>>, <<10, DefaultRight>>, <<10, 2 * SCALE>> }

Sigmas == {0, 1, 5000}

Engines == {"probFactors", "vega", "callPrice", "putPrice"}

VARIABLES
  fn,        \* the function called
  args,      \* its arguments
  pc,        \* "loop", "returned" or "raised"
  iter,      \* iterations of the solver's loop begun
  sigma,     \* newton_raphson_iv's sigma
  left,      \* bisection_method_iv's left
  right,     \* bisection_method_iv's right
  mid,       \* bisection_method_iv's mid (NoValue while unbound)
  diff,      \* the last diff (newton), diff_mid (bisection) or diffs[i] (brute force)
  prev_diff, \* diff_mid as the previous iteration left it
  diff_left, \* bisection_method_iv's diff_left
  vega,      \* newton_raphson_iv's vega
  best_i,    \* np.argmin of the diffs filled so far
  best_diff, \* diffs[best_i]
  ret,       \* the value returned, or the exception raised
  exit,      \* how the loop was left: "", "break" or "exhausted"
  evalAt     \* the sigmas the Pricing Engine was called with in the last step

vars == << fn, args, pc, iter, sigma, left, right, mid, diff, prev_diff, diff_left, vega,
           best_i, best_diff, ret, exit, evalAt >>

CommonArgs ==
  [spot : Spots, strike : Strikes, rate : Rates, tau : Taus, market : Markets,
   is_call : BOOLEAN]

Start(f, a) ==
  /\ fn = f
  /\ args = a
  /\ pc = "loop"
  /\ iter = 0
  /\ sigma = IF f = "newton" THEN a.guess ELSE 0
  /\ left = IF f = "bisect" THEN a.left ELSE 0
  /\ right = IF f = "bisect" THEN a.right ELSE 0
  /\ mid = NoValue
  /\ diff = NoValue
  /\ prev_diff = NoValue
  /\ diff_left = 0
  /\ vega = 0
  /\ best_i = 0
  /\ best_diff = NoValue
  /\ ret = NoValue
  /\ exit = ""
  /\ evalAt = {}

Extend(a, b) == [x \in (DOMAIN a) \cup (DOMAIN b) |-> IF x \in DOMAIN b THEN b[x] ELSE a[x]]

InitNewton ==
  \E a \in CommonArgs, g \in Guesses, t \in Tols, n \in 0..MaxIter :
    Start("newton", Extend(a, [guess |-> g, tol |-> t, maxIter |-> n]))

InitBisect ==
  \E a \in CommonArgs, b \in Brackets, t \in Tols, n \in 0..MaxIter :
    Start("bisect", Extend(a, [left |-> b[1], right |-> b[2], tol |-> t, maxIter |-> n]))

InitBrute ==
  \E a \in CommonArgs :
    /\ a.rate = 0
    /\ a.market = 900
    /\ a.tau \in {0, SecondsPerYear}
    /\ a.spot = 5000
    /\ a.strike >= a.spot
    /\ Start("brute", a)

InitEngine ==
  \E a \in CommonArgs, s \in Sigmas, e \in Engines, r \in BOOLEAN :
    Start("engine", Extend(a, [sigma |-> s, engine |-> e, arr |-> r]))

\* A convergence test that also stops at abs(diff) = tol.
ConvergedLoose(d, tol) == Abs(d) <= tol

\* abs(diff) < tol.
Converged(d, tol) == Abs(d) < tol

\* A vega floor a hundred times too small.
FlooredVegaLow(v) == Max(v, VegaFloor \div 100)

\* max(get_vega(...), 0.01).
FlooredVega(v) == Max(v, VegaFloor)

\* One iteration of newton_raphson_iv's loop.
NewtonIter ==
  /\ fn = "newton"
  /\ pc = "loop"
  /\ iter < args.maxIter
  /\ iter' = iter + 1
  /\ evalAt' = {sigma}
  /\ LET p == Price(args.spot, args.strike, args.rate, sigma, args.tau, args.is_call, FALSE)
         d == p.v - args.market
         v == FlooredVega(get_vega(args.spot, args.strike, args.rate, sigma, args.tau, FALSE).v)
     IN  IF p.k = "raise"
         THEN /\ pc' = "raised"
              /\ ret' = p
              /\ UNCHANGED << sigma, diff, vega, exit >>
         ELSE IF Converged(d, args.tol)
         THEN /\ pc' = "returned"
              /\ ret' = Fin(sigma)
              /\ exit' = "break"
              /\ diff' = Fin(d)
              /\ UNCHANGED << sigma, vega >>
         ELSE /\ diff' = Fin(d)
              /\ vega' = v
              /\ sigma' = sigma - DivFix(d, v)
              /\ UNCHANGED << pc, ret, exit >>
  /\ UNCHANGED << fn, args, left, right, mid, prev_diff, diff_left, best_i, best_diff >>

\* newton_raphson_iv's return after the loop ran out.
NewtonReturn ==
  /\ fn = "newton"
  /\ pc = "loop"
  /\ iter = args.maxIter
  /\ pc' = "returned"
  /\ ret' = Fin(sigma)
  /\ exit' = "exhausted"
  /\ evalAt' = {}
  /\ UNCHANGED << fn, args, iter, sigma, left, right, mid, diff, prev_diff, diff_left,
                  vega, best_i, best_diff >>

\* left + right / 2, the division binding tighter than meant.
MidpointUnparenthesised(l, r) == l + r \div 2

\* (left + right) / 2.
Midpoint(l, r) == (l + r) \div 2

\* The sign test inverted.
OppositeSign(dm, dl) == (dm >= 0) # (dl >= 0)

\* (diff_mid >= 0) == (diff_left >= 0).
SameSign(dm, dl) == (dm >= 0) = (dl >= 0)

\* One iteration of bisection_method_iv's loop.
BisectIter ==
  /\ fn = "bisect"
  /\ pc = "loop"
  /\ iter < args.maxIter
  /\ iter' = iter + 1
  /\ prev_diff' = diff
  /\ LET m == Midpoint(left, right)
         pm == Price(args.spot, args.strike, args.rate, m, args.tau, args.is_call, FALSE)
         pl == Price(args.spot, args.strike, args.rate, left, args.tau, args.is_call, FALSE)
         dm == pm.v - args.market
         dl == pl.v - args.market
     IN  /\ mid' = Fin(m)
         /\ evalAt' = IF pm.k = "raise" THEN {m} ELSE {m, left}
         /\ IF pm.k = "raise" \/ pl.k = "raise"
            THEN /\ pc' = "raised"
                 /\ ret' = IF pm.k = "raise" THEN pm ELSE pl
                 /\ diff' = IF pm.k = "raise" THEN diff ELSE Fin(dm)
                 /\ UNCHANGED << left, right, diff_left, exit >>
            ELSE /\ diff' = Fin(dm)
                 /\ diff_left' = dl
                 /\ IF Converged(dm, args.tol)
                    THEN /\ pc' = "returned"
                         /\ ret' = Fin(m)
                         /\ exit' = "break"
                         /\ UNCHANGED << left, right >>
                    ELSE /\ IF SameSign(dm, dl)
                            THEN left' = m /\ right' = right
                            ELSE right' = m /\ left' = left
                         /\ UNCHANGED << pc, ret, exit >>
  /\ UNCHANGED << fn, args, sigma, vega, best_i, best_diff >>

\* bisection_method_iv's return after the loop ran out; mid is unbound when
\* the loop never ran.
BisectReturn ==
  /\ fn = "bisect"
  /\ pc = "loop"
  /\ iter = args.maxIter
  /\ IF mid = NoValue
     THEN pc' = "raised" /\ ret' = Raised("UnboundLocalError")
     ELSE pc' = "returned" /\ ret' = mid
  /\ exit' = "exhausted"
  /\ evalAt' = {}
  /\ UNCHANGED << fn, args, iter, sigma, left, right, mid, diff, prev_diff, diff_left,
                  vega, best_i, best_diff >>

\* abs(diff) of a price and market.
AbsDiff(p, market) == IF p.k = "fin" THEN Fin(Abs(p.v - market)) ELSE NaN

\* An argmin that moves on ties, keeping the last smallest entry.
BetterOrEqual(d, b) ==
  \/ b.k = "none"
  \/ d.k = "nan" /\ b.k = "fin"
  \/ d.k = "fin" /\ b.k = "fin" /\ d.v <= b.v

\* Whether np.argmin moves to a new entry d from its best so far b: the
\* first nan if there is one, else the first smallest entry.
Better(d, b) ==
  \/ b.k = "none"
  \/ d.k = "nan" /\ b.k = "fin"
  \/ d.k = "fin" /\ b.k = "fin" /\ d.v < b.v

\* One iteration of brute_force_iv's loop, np.argmin kept along the way.
BruteIter ==
  /\ fn = "brute"
  /\ pc = "loop"
  /\ iter < GridLen
  /\ iter' = iter + 1
  /\ LET candidate == Candidate(iter)
         p == Price(args.spot, args.strike, args.rate, candidate, args.tau, args.is_call, TRUE)
         d == AbsDiff(p, args.market)
     IN  /\ evalAt' = {candidate}
         /\ diff' = d
         /\ IF Better(d, best_diff)
            THEN best_i' = iter /\ best_diff' = d
            ELSE UNCHANGED << best_i, best_diff >>
  /\ UNCHANGED << fn, args, pc, sigma, left, right, mid, prev_diff, diff_left, vega, ret,
                  exit >>

\* return candidates[best_i], diffs[best_i].
BruteReturn ==
  /\ fn = "brute"
  /\ pc = "loop"
  /\ iter = GridLen
  /\ pc' = "returned"
  /\ ret' = [k |-> "pair", v |-> Candidate(best_i), err |-> best_diff]
  /\ exit' = "exhausted"
  /\ evalAt' = {}
  /\ UNCHANGED << fn, args, iter, sigma, left, right, mid, diff, prev_diff, diff_left,
                  vega, best_i, best_diff >>

\* What a direct Pricing Engine call gives.
EngineOutcome(a, arr) ==
  LET pf == get_prob_factors(a.spot, a.strike, a.rate, a.sigma, a.tau, arr)
  IN  CASE a.engine = "probFactors" ->
             IF pf.k = "raise" THEN Raised("ZeroDivisionError")
             ELSE [k |-> pf.k, v |-> pf.d1]
        [] a.engine = "vega" -> get_vega(a.spot, a.strike, a.rate, a.sigma, a.tau, arr)
        [] a.engine = "callPrice" ->
             get_call_price(a.spot, a.strike, a.rate, a.sigma, a.tau, arr)
        [] OTHER -> get_put_price(a.spot, a.strike, a.rate, a.sigma, a.tau, arr)

\* A direct call of one of the four Pricing Engine functions.
EngineCall ==
  /\ fn = "engine"
  /\ pc = "loop"
  /\ LET out == EngineOutcome(args, args.arr)
     IN  /\ ret' = out
         /\ pc' = IF out.k = "raise" THEN "raised" ELSE "returned"
  /\ evalAt' = {args.sigma}
  /\ UNCHANGED << fn, args, iter, sigma, left, right, mid, diff, prev_diff, diff_left,
                  vega, best_i, best_diff, exit >>

NextNewton == NewtonIter \/ NewtonReturn

NextBisect == BisectIter \/ BisectReturn

NextBrute == BruteIter \/ BruteReturn

Init == InitNewton \/ InitBisect \/ InitBrute \/ InitEngine

Next == NewtonIter \/ NewtonReturn \/ BisectIter \/ BisectReturn \/ BruteIter
        \/ BruteReturn \/ EngineCall

Spec == Init /\ [][Next]_vars

SpecNewton == InitNewton /\ [][NextNewton]_vars

SpecBisect == InitBisect /\ [][NextBisect]_vars

SpecBrute == InitBrute /\ [][NextBrute]_vars

SpecEngine == InitEngine /\ [][EngineCall]_vars

(***************************************************************************)
(* The claims.                                                             *)
(***************************************************************************)

\* The arguments the spec calls valid (spot, strike and market are positive
\* in every call explored).
ValidInputs == args.spot > 0 /\ args.strike > 0 /\ args.market > 0 /\ args.tau > 0

\* price(s) - market for the call's arguments, as the solvers compute it.
DiffAt(s) ==
  Price(args.spot, args.strike, args.rate, s, args.tau, args.is_call, FALSE).v - args.market

\* C1: when newton_raphson_iv leaves its loop by the break, the sigma it
\* returns is the sigma of that iteration, not updated: its price is within
\* tol of market, and a guess that already is within tol is returned as is.
C1_EarlyExitWithinTol ==
  (fn = "newton" /\ pc = "returned" /\ exit = "break") =>
    /\ ret = Fin(sigma)
    /\ Abs(DiffAt(ret.v)) < args.tol
    /\ diff = Fin(DiffAt(ret.v))
    /\ (iter = 1 => ret.v = args.guess)

\* A call that converged after at least two updates.
C1_Witness ==
  fn = "newton" /\ pc = "returned" /\ exit = "break" /\ iter >= 3 /\ ret.v # args.guess

C4_ReturnsWithoutRaising ==
  (fn = "bisect" /\ ValidInputs) =>
    /\ iter <= args.maxIter
    /\ pc # "raised"
    /\ (pc = "returned" => ret = mid /\ (exit = "exhausted" => iter = args.maxIter))

\* The bracket the call was given holds a sign change of price - market.
Bracketing ==
  /\ args.left > 0
  /\ args.tau > 0
  /\ (DiffAt(args.left) >= 0) # (DiffAt(args.right) >= 0)

\* Two consecutive iterations have been run on a bracketing interval.
TwoIterations ==
  /\ fn = "bisect" /\ iter >= 2 /\ pc # "raised"
  /\ prev_diff.k = "fin" /\ diff.k = "fin"
  /\ Bracketing

\* C5: on a bracketing interval the error |price(mid) - market| never grows
\* from one iteration of bisection_method_iv to the next.
C5_ErrorNonIncreasing == TwoIterations => Abs(diff.v) <= Abs(prev_diff.v)

\* C5 amended: the error never grows from one iteration to the next while
\* the two mids lie on the same side of the root (their diffs have the same
\* sign).
C5_ErrorNonIncreasingSameSide ==
  (TwoIterations /\ (diff.v >= 0) = (prev_diff.v >= 0)) => Abs(diff.v) <= Abs(prev_diff.v)

\* Two consecutive mids on the same side of the root, the error shrinking.
C5_Witness ==
  /\ TwoIterations /\ pc = "loop"
  /\ (diff.v >= 0) = (prev_diff.v >= 0)
  /\ Abs(diff.v) < Abs(prev_diff.v)
  /\ diff.v < 0

\* C9: every iteration of bisection_method_iv that does not converge moves
\* exactly one endpoint to mid: left when diff_mid and diff_left are both
\* >= 0 or both < 0, right otherwise.  So left <= mid <= right, mid lies in
\* the bracket the call was given, the width halves (to the unit), and a sign
\* change between the endpoints stays between them.
C9_BracketStep ==
  [][(fn = "bisect" /\ pc = "loop" /\ iter' = iter + 1 /\ pc' = "loop") =>
       /\ mid'.k = "fin"
       /\ left <= mid'.v /\ mid'.v <= right
       /\ args.left <= mid'.v /\ mid'.v <= args.right
       /\ IF (diff'.v >= 0) = (diff_left' >= 0)
          THEN left' = mid'.v /\ right' = right
          ELSE right' = mid'.v /\ left' = left
       /\ left' <= right'
       /\ Abs(2 * (right' - left') - (right - left)) <= 1
       /\ ((DiffAt(left) >= 0) # (DiffAt(right) >= 0)
             => (DiffAt(left') >= 0) # (DiffAt(right') >= 0))]_vars

\* Both endpoints have moved, on a bracket that holds a sign change.
C9_Witness ==
  /\ fn = "bisect" /\ pc = "loop" /\ iter >= 2
  /\ left > args.left /\ right < args.right
  /\ (DiffAt(left) >= 0) # (DiffAt(right) >= 0)
\* |price(c) - market| at grid candidate c, as brute_force_iv computes it.
GridError(c) ==
  AbsDiff(Price(args.spot, args.strike, args.rate, c, args.tau, args.is_call, TRUE),
          args.market)

\* What C3 says of the pair brute_force_iv returns.
BestGridPoint ==
  /\ ret.k = "pair"
  /\ \E i \in 0..(GridLen - 1) : ret.v = Candidate(i)
  /\ ret.v > 0 /\ ret.v < GridStop
  /\ ret.err.k = "fin" /\ ret.err.v >= 0
  /\ ret.err = GridError(ret.v)
  /\ \A i \in 0..(GridLen - 1) :
       /\ GridError(Candidate(i)).k = "fin"
       /\ ret.err.v <= GridError(Candidate(i)).v
       /\ (Candidate(i) < ret.v => ret.err.v < GridError(Candidate(i)).v)

C6_DegenerateRejected ==
  (fn = "engine" /\ pc # "loop" /\ (args.sigma = 0 \/ args.tau = 0)) =>
    /\ ret.k \in {"raise", "nan"}
    /\ EngineOutcome(args, ~args.arr).k = ret.k

\* S - K e^(-r tauInYears).
Forward == args.spot - MulFix(args.strike, Exp(-MulFix(args.rate, tauToYears(args.tau))))

C8_SigmaPositive ==
  (/\ ValidInputs
   /\ fn = "newton" => args.guess = DefaultGuess
   /\ fn = "bisect" => args.left = DefaultLeft /\ args.right = DefaultRight
   /\ fn # "engine")
  => \A s \in evalAt : s > 0

=============================================================================
